---------------------------- MODULE Spec2Model ----------------------------
(* Model of the main loop of code.py (IoT Plant Monitor 2.0): once the      *)
(* monotonic clock is 60 s past last_updated the loop reads the three       *)
(* sensors, converts the readings and publishes them to three Adafruit IO   *)
(* feeds; an OSError raised by a publish resets the WiFi and restarts the   *)
(* loop, anything else that is raised (by a sensor read, by a publish as    *)
(* another exception, by wifi.reset() in the handler) ends the program.     *)
(*                                                                          *)
(* Time is counted in whole seconds from the moment last_updated is first   *)
(* set.  Measurements are fixed-point numbers  *)
(* in hundredths (7160 stands for 71.6); raw sensor readings are integers.  *)
(* A publish that raises OSError is taken not to have delivered its value.  *)
EXTENDS Integers, Sequences, FiniteSets

(* ------------------------------ bounds -------------------------------- *)

\* The clock stops advancing here (it only bounds the exploration).
MaxTime == 62

\* At most this many publishes raise OSError in one run.
MaxFailures == 2

\* One pass through the body of the if takes at most this many seconds.
MaxBusy == 2

\* The loop polls the clock at most this many seconds after the interval ended.
MaxLate == 1

(* ------------------------- program constants -------------------------- *)

\* "if time.monotonic() - last_updated >= 60" and "time.monotonic() - 60"
INTERVAL == 60

\* Readings the sensors may return (lux, raw moisture, degrees Celsius).
LuxValues == {0, 500}
MoistureValues == {150, 200, 1010, 2000, 2050}
TempValues == {-5, 22}

VARIABLES
    now,                 \* time.monotonic()
    last_updated,        \* the global last_updated
    pc,                  \* the statement the loop is at
    plant_measurements,  \* the global dict plant_measurements
    raw,                 \* history: the latest raw reading of each sensor
    reads,               \* history: sensors read in the current attempt
    sent,                \* history: publishes of the current attempt, in order
    lastPub,             \* history: feed published so far -> time of its latest publish
    redo,                \* history: feeds whose latest publish was in a failed attempt
    resets,              \* history: wifi.reset() calls in the current attempt
    failures,            \* history: publishes that raised OSError so far
    entry,               \* history: clock and last_updated when the attempt began
    outcome,             \* history: how the latest finished attempt ended
    last                 \* history: the latest step taken

vars == <<now, last_updated, pc, plant_measurements, raw, reads, sent, lastPub,
          redo, resets, failures, entry, outcome, last>>

\* Everything but the clock and the label of the latest step.
progVars == <<last_updated, pc, plant_measurements, raw, reads, sent, lastPub,
              redo, resets, failures, entry, outcome>>

(* --------------------------- unit converter --------------------------- *)

\* x / y rounded to the nearest integer, for y > 0 and x >= 0
RoundDiv(x, y) == (2 * x + y) \div (2 * y)

\* def cel_to_fahr(celsius): return celsius * 1.80 + 32     (in hundredths)
cel_to_fahr(celsius) == celsius * 180 + 3200

\* def lux_to_footcandle(lux): return lux / 10.764           (in hundredths)
lux_to_footcandle(lux) == RoundDiv(lux * 100000, 10764)

\* soil_sensor.moisture_read()/20                            (in hundredths)
MoistureClamped(r) == IF r < 200 THEN 1000 ELSE IF r > 2000 THEN 10000 ELSE (r * 100) \div 20
moisture_scale(r) == (r * 100) \div 20

(* ------------------------------ the loop ------------------------------ *)

Feeds == {"sun", "spruce.moisture", "spruce.temperature"}
Sensors == {"lux", "moisture", "temp"}

\* the condition of the if at the top of the loop
GateOffByOne(t, lu) == t - lu > INTERVAL
GateEarly(t, lu) == t - lu >= INTERVAL - 1
IntervalElapsed(t, lu) == t - lu >= INTERVAL

Init ==
    /\ now = 0
    /\ last_updated = now - INTERVAL
    /\ pc = "poll"
    /\ plant_measurements = [sunlight |-> 0, moisture |-> 0, temperature |-> 0]
    /\ raw = [lux |-> 0, moisture |-> 0, temp |-> 0]
    /\ reads = {}
    /\ sent = <<>>
    /\ lastPub = [f \in {} |-> 0]
    /\ redo = {}
    /\ resets = 0
    /\ failures = 0
    /\ entry = [start |-> now, last |-> last_updated]
    /\ outcome = "none"
    /\ last = "init"

\* Time passes (between any two statements, and while one runs).
Tick ==
    /\ pc # "fatal"
    /\ now < MaxTime
    /\ IF pc = "poll"
       THEN now - last_updated < INTERVAL + MaxLate
       ELSE now - entry.start < MaxBusy
    /\ now' = now + 1
    /\ last' = "tick"
    /\ UNCHANGED progVars

\* while True: if time.monotonic() - last_updated >= 60:
Poll ==
    /\ pc = "poll"
    /\ IF IntervalElapsed(now, last_updated)
       THEN /\ pc' = "read_lux"
            /\ entry' = [start |-> now, last |-> last_updated]
            /\ reads' = {}
            /\ sent' = <<>>
            /\ resets' = 0
            /\ last' = "enter"
       ELSE /\ last' = "idle"
            /\ UNCHANGED <<pc, entry, reads, sent, resets>>
    /\ UNCHANGED <<now, last_updated, plant_measurements, raw, lastPub, redo,
                   failures, outcome>>

\* The conversion applied to the reading of each sensor.
Convert(sensor, v) ==
    CASE sensor = "lux" -> lux_to_footcandle(v)
      [] sensor = "moisture" -> moisture_scale(v)
      [] sensor = "temp" -> cel_to_fahr(v)

\* A sensor read: it returns v, or the driver raises; onError is where an
\* exception raised at this statement takes the program.
Read(here, sensor, key, values, next, onError) ==
    /\ pc = here
    /\ \/ \E v \in values :
            /\ raw' = [raw EXCEPT ![sensor] = v]
            /\ plant_measurements' = [plant_measurements EXCEPT ![key] = Convert(sensor, v)]
            /\ reads' = reads \cup {sensor}
            /\ pc' = next
            /\ last' = "read"
       \/ /\ pc' = onError
          /\ last' = "sensor_error"
          /\ UNCHANGED <<raw, plant_measurements, reads>>
    /\ UNCHANGED <<now, last_updated, sent, lastPub, redo, resets, failures,
                   entry, outcome>>

\* plant_measurements['sunlight'] = lux_to_footcandle(light_sensor.lux)
ReadLux ==
    Read("read_lux", "lux", "sunlight", LuxValues,
         "read_moisture", "fatal")

\* plant_measurements['moisture'] = soil_sensor.moisture_read()/20
ReadMoistureInTry ==
    Read("read_moisture", "moisture", "moisture", MoistureValues,
         "read_temp", "except")
ReadMoisture ==
    Read("read_moisture", "moisture", "moisture", MoistureValues,
         "read_temp", "fatal")

\* plant_measurements['temperature'] = cel_to_fahr(soil_sensor.get_temp())
ReadTemp ==
    Read("read_temp", "temp", "temperature", TempValues,
         "pub_sun", "fatal")

\* io.publish(feed, plant_measurements[key]) inside the try: the value is
\* sent, or the call raises OSError and control goes to the except clause, or
\* it raises an exception that is no OSError, which nothing catches.
PublishKeepsGoing(here, feed, key, next) ==
    /\ pc = here
    /\ \/ /\ sent' = Append(sent, [feed |-> feed, val |-> plant_measurements[key]])
          /\ lastPub' = [f \in DOMAIN lastPub \cup {feed} |->
                            IF f = feed THEN now ELSE lastPub[f]]
          /\ redo' = redo \ {feed}
          /\ pc' = next
          /\ last' = "publish"
          /\ UNCHANGED <<failures, outcome>>
       \/ /\ failures < MaxFailures
          /\ failures' = failures + 1
          /\ redo' = redo \cup {sent[i].feed : i \in DOMAIN sent}
          /\ outcome' = "failed"
          /\ pc' = next
          /\ last' = "oserror"
          /\ UNCHANGED <<sent, lastPub>>
       \/ /\ pc' = "fatal"
          /\ last' = "publish_error"
          /\ UNCHANGED <<sent, lastPub, redo, failures, outcome>>
    /\ UNCHANGED <<now, last_updated, plant_measurements, raw, reads, resets, entry>>
Publish(here, feed, key, next) ==
    /\ pc = here
    /\ \/ /\ sent' = Append(sent, [feed |-> feed, val |-> plant_measurements[key]])
          /\ lastPub' = [f \in DOMAIN lastPub \cup {feed} |->
                            IF f = feed THEN now ELSE lastPub[f]]
          /\ redo' = redo \ {feed}
          /\ pc' = next
          /\ last' = "publish"
          /\ UNCHANGED <<failures, outcome>>
       \/ /\ failures < MaxFailures
          /\ failures' = failures + 1
          /\ redo' = redo \cup {sent[i].feed : i \in DOMAIN sent}
          /\ outcome' = "failed"
          /\ pc' = "except"
          /\ last' = "oserror"
          /\ UNCHANGED <<sent, lastPub>>
       \/ /\ pc' = "fatal"
          /\ last' = "publish_error"
          /\ UNCHANGED <<sent, lastPub, redo, failures, outcome>>
    /\ UNCHANGED <<now, last_updated, plant_measurements, raw, reads, resets, entry>>

\* io.publish("sun", plant_measurements['sunlight'])
PublishSun == Publish("pub_sun", "sun", "sunlight", "pub_moisture")

\* io.publish("spruce.moisture", (plant_measurements['moisture']))
PublishMoistureAsTemperature ==
    Publish("pub_moisture", "spruce.temperature", "temperature", "pub_temperature")
PublishMoisture ==
    Publish("pub_moisture", "spruce.moisture", "moisture", "pub_temperature")

\* io.publish("spruce.temperature", plant_measurements['temperature'])
PublishTemperature ==
    Publish("pub_temperature", "spruce.temperature", "temperature", "stamp")

\* except OSError as e: print(...); wifi.reset(); continue
\* wifi.reset() returns and the loop starts over, or it raises: the handler
\* is in no try, so that exception ends the program.  `after` is the value
\* last_updated has once the handler is done (the code leaves it alone).
ResetCall(after) ==
    /\ pc = "except"
    /\ resets' = resets + 1
    /\ \/ /\ pc' = "poll"
          /\ last' = "reset"
          /\ last_updated' = after
       \/ /\ pc' = "fatal"
          /\ last' = "reset_error"
          /\ UNCHANGED last_updated
    /\ UNCHANGED <<now, plant_measurements, raw, reads, sent, lastPub, redo,
                   failures, entry, outcome>>
HandlerStamps == ResetCall(now)
HandlerReraises ==
    /\ pc = "except"
    /\ resets' = resets + 1
    /\ pc' = "fatal"
    /\ last' = "reset"
    /\ UNCHANGED <<now, last_updated, plant_measurements, raw, reads, sent,
                   lastPub, redo, failures, entry, outcome>>
HandleOSError == ResetCall(last_updated)

\* last_updated = time.monotonic()
StampCycleStart ==
    /\ pc = "stamp"
    /\ last_updated' = entry.start
    /\ outcome' = "ok"
    /\ pc' = "poll"
    /\ last' = "stamp"
    /\ UNCHANGED <<now, plant_measurements, raw, reads, sent, lastPub, redo,
                   resets, failures, entry>>
Stamp ==
    /\ pc = "stamp"
    /\ last_updated' = now
    /\ outcome' = "ok"
    /\ pc' = "poll"
    /\ last' = "stamp"
    /\ UNCHANGED <<now, plant_measurements, raw, reads, sent, lastPub, redo,
                   resets, failures, entry>>

\* One statement of the loop.
Step ==
    \/ Poll
    \/ ReadLux
    \/ ReadMoisture
    \/ ReadTemp
    \/ PublishSun
    \/ PublishMoisture
    \/ PublishTemperature
    \/ HandleOSError
    \/ Stamp

Next == Tick \/ Step

Spec == Init /\ [][Next]_vars

\* The interpreter keeps running the loop while a statement can run.
FairSpec == Spec /\ WF_vars(Step)

(* ------------------------------ properties ----------------------------- *)

\* The feeds in the order the claims give them.
FeedOrder == <<"sun", "spruce.moisture", "spruce.temperature">>

\* The measurement each feed carries.
KeyOf(f) ==
    CASE f = "sun" -> "sunlight"
      [] f = "spruce.moisture" -> "moisture"
      [] f = "spruce.temperature" -> "temperature"

\* The loop is inside the body of the if.
InAttempt ==
    pc \in {"read_lux", "read_moisture", "read_temp", "pub_sun", "pub_moisture",
            "pub_temperature", "except", "stamp"}

\* This step publishes a value to feed f.
PublishedNow(f) == Len(sent') = Len(sent) + 1 /\ sent'[Len(sent')].feed = f

\* The feeds published in the current attempt.
SentFeeds == {sent[i].feed : i \in DOMAIN sent}

\* C1 as stated: whenever a feed is published to again, at least 60 s have
\* passed since its previous publish, also when a failed attempt is retried.
C1_Original ==
    [][\A f \in Feeds :
         (PublishedNow(f) /\ f \in DOMAIN lastPub) => now - lastPub[f] >= INTERVAL]_vars

\* C1 amended: a feed is published to again less than 60 s after its previous
\* publish only if that previous publish was made in an attempt that then
\* failed with OSError; this never happens to spruce.temperature, whose
\* publish is the last one of an attempt.
C1_Amended ==
    [][/\ \A f \in Feeds :
            (PublishedNow(f) /\ f \in DOMAIN lastPub /\ f \notin redo)
                => now - lastPub[f] >= INTERVAL
       /\ "spruce.temperature" \notin redo']_vars

\* A second cycle publishes to sun 60 s or more after a cycle that succeeded
\* in a run in which a publish had failed.
C1_Witness ==
    /\ last = "publish"
    /\ Len(sent) = 1
    /\ outcome = "ok"
    /\ failures > 0
    /\ "spruce.temperature" \in DOMAIN lastPub
    /\ now - lastPub["spruce.temperature"] >= INTERVAL

\* C2: when a publish raises OSError, the feeds published in that attempt are
\* exactly the ones before the failing one (so after sun succeeded and
\* spruce.moisture failed, spruce.temperature is not published), wifi.reset()
\* is called exactly once and last_updated keeps the value it had when the
\* attempt began.
C2_FailedAttempt ==
    /\ resets <= 1
    /\ last = "oserror" =>
          /\ pc = "except"
          /\ resets = 0
    /\ last \in {"reset", "reset_error"} =>
          /\ pc = (IF last = "reset" THEN "poll" ELSE "fatal")
          /\ resets = 1
    /\ last \in {"oserror", "reset", "reset_error"} =>
          /\ outcome = "failed"
          /\ Len(sent) < 3
          /\ \A i \in DOMAIN sent : sent[i].feed = FeedOrder[i]
          /\ last_updated = entry.last

\* The handler has run after sun was published and spruce.moisture failed.
C2_Witness ==
    /\ last = "reset"
    /\ SentFeeds = {"sun"}
    /\ resets = 1

\* C3 as stated: after a successful cycle last_updated is the clock value at
\* which that cycle started.
C3_Original == (pc = "poll" /\ outcome = "ok") => last_updated = entry.start

\* C3 amended: after a successful cycle last_updated is the clock value read
\* after the third publish returned, which is no earlier than the time of
\* that publish and of the cycle's start.
C3_Amended ==
    /\ (pc = "poll" /\ outcome = "ok") =>
          /\ "spruce.temperature" \in DOMAIN lastPub
          /\ entry.start <= lastPub["spruce.temperature"]
          /\ lastPub["spruce.temperature"] <= last_updated
          /\ last_updated <= now
    /\ last = "stamp" => last_updated = now

\* A successful cycle that took time: last_updated is later than its start.
C3_Witness == pc = "poll" /\ outcome = "ok" /\ last_updated > entry.start

\* C4: a poll with less than 60 s on the clock since last_updated changes
\* nothing; a poll with 60 s or more enters the cycle at the first sensor
\* read, with nothing read or published yet.
C4_Gate ==
    [][(pc = "poll" /\ now' = now) =>
          IF now - last_updated >= INTERVAL
          THEN /\ pc' = "read_lux"
               /\ reads' = {}
               /\ sent' = <<>>
               /\ entry'.start = now
               /\ UNCHANGED <<last_updated, plant_measurements, lastPub>>
          ELSE /\ last' = "idle"
               /\ UNCHANGED progVars]_vars

\* The loop enters a cycle exactly 60 s after the stamp of a successful one.
C4_Witness ==
    /\ last = "enter"
    /\ outcome = "ok"
    /\ now - last_updated = INTERVAL

\* C5: the publishes of an attempt are sun, spruce.moisture and
\* spruce.temperature in this order, each carrying its own measurement, all
\* of them after the three sensor reads of the attempt; a successful cycle
\* has exactly these three publishes.
C5_Order ==
    /\ Len(sent) <= 3
    /\ \A i \in DOMAIN sent :
          /\ sent[i].feed = FeedOrder[i]
          /\ sent[i].val = plant_measurements[KeyOf(FeedOrder[i])]
    /\ (sent # <<>> \/ pc \in {"pub_sun", "pub_moisture", "pub_temperature"})
          => reads = Sensors
    /\ pc = "pub_moisture" => Len(sent) = 1
    /\ pc = "pub_temperature" => Len(sent) = 2
    /\ (pc = "stamp" \/ last = "stamp") => Len(sent) = 3

\* A cycle has succeeded.
C5_Witness == last = "stamp" /\ Len(sent) = 3

\* C6: after an attempt that failed with OSError the interval condition
\* still holds, so the next poll enters the cycle at once, at the first
\* sensor read with nothing read or published.
C6_Retry ==
    [][(pc = "poll" /\ outcome = "failed") =>
          /\ now - last_updated >= INTERVAL
          /\ now' = now =>
                /\ pc' = "read_lux"
                /\ reads' = {}
                /\ sent' = <<>>]_vars

\* The retry of a failed attempt has read the sensors again and published
\* to sun again, in the same second in which the attempt failed.
C6_Witness ==
    /\ outcome = "failed"
    /\ pc = "pub_moisture"
    /\ last = "publish"
    /\ failures = 1
    /\ reads = Sensors
    /\ now = 0

\* C7: an OSError raised by a publish never ends the loop: it is always
\* caught, the handler calls wifi.reset() once and, that call having
\* returned, the loop is back at its poll.  The program ends only by another
\* failure: a sensor read raising, a publish raising an exception that is no
\* OSError, or wifi.reset() itself raising.  Every failed attempt is followed
\* by a successful cycle (three publishes and a new last_updated) unless the
\* program ends in one of those three ways.
C7_KeepsRunning ==
    /\ [](pc = "fatal" => last \in {"sensor_error", "publish_error", "reset_error"})
    /\ [](last = "oserror" => pc = "except")
    /\ [](last = "reset" => pc = "poll")
    /\ [][(pc = "except" /\ now' = now) =>
            /\ resets' = resets + 1
            /\ pc' = "poll" \/ (pc' = "fatal" /\ last' = "reset_error")]_vars
    /\ (outcome = "failed") ~>
          ((outcome = "ok" /\ Len(sent) = 3 /\ last_updated >= entry.start) \/ pc = "fatal")

\* A cycle succeeds after as many consecutive failed attempts as the run allows.
C7_Witness ==
    /\ outcome = "ok"
    /\ last = "stamp"
    /\ failures = MaxFailures
    /\ now = 0

\* C8: a sensor read that raises ends the loop: the exception is not handled,
\* nothing was published in the attempt, wifi.reset() was not called,
\* last_updated is unchanged and no further step is taken.
C8_SensorFatal ==
    /\ [](last = "sensor_error" =>
            /\ pc = "fatal"
            /\ sent = <<>>
            /\ resets = 0
            /\ last_updated = entry.last)
    /\ [][pc # "fatal"]_vars

\* The moisture read raised in the retry of a failed attempt.
C8_Witness ==
    /\ pc = "fatal"
    /\ last = "sensor_error"
    /\ reads = {"lux"}
    /\ outcome = "failed"

\* C9: an attempt that follows a successful cycle starts 60 s or more after
\* the third publish of that cycle, and a poll that does not enter the cycle
\* leaves the loop at the poll with less than 60 s elapsed.
C9_IdleAfterSuccess ==
    /\ (InAttempt /\ Len(sent) < 3 /\ "spruce.temperature" \in DOMAIN lastPub)
          => entry.start - lastPub["spruce.temperature"] >= INTERVAL
    /\ last = "idle" => (pc = "poll" /\ now - last_updated < INTERVAL)

\* A second cycle is under way after a successful one that took time.
C9_Witness ==
    /\ pc = "pub_sun"
    /\ outcome = "ok"
    /\ "spruce.temperature" \in DOMAIN lastPub
    /\ lastPub["spruce.temperature"] > 0

\* C10: the value published to spruce.moisture is the raw moisture reading
\* of the attempt divided by 20: 200 gives 10, 2000 gives 100, readings in
\* 200..2000 give 10..100 and readings outside give values outside.
C10_Moisture ==
    \A i \in DOMAIN sent :
        sent[i].feed = "spruce.moisture" =>
            /\ "moisture" \in reads
            /\ sent[i].val * 20 = raw.moisture * 100
            /\ raw.moisture = 200 => sent[i].val = 1000
            /\ raw.moisture = 2000 => sent[i].val = 10000
            /\ raw.moisture \in 200..2000 => sent[i].val \in 1000..10000
            /\ raw.moisture < 200 => sent[i].val < 1000
            /\ raw.moisture > 2000 => sent[i].val > 10000

\* A reading above 2000 was published unclamped.
C10_Witness ==
    \E i \in DOMAIN sent :
        /\ sent[i].feed = "spruce.moisture"
        /\ raw.moisture > 2000
        /\ sent[i].val > 10000

==========================================================================
